---- MODULE Spec2Model ----
(***************************************************************************)
(* LLMClient (apps/classifier/services/llm_client.py): construction of the *)
(* primary/fallback provider pair and the retry/fallback invocation loop   *)
(* _invoke_with_retry.                                                     *)
(***************************************************************************)
EXTENDS Naturals, Integers, Sequences, FiniteSets, TLC

\* ---------------------------------------------------------------- bounds
\* largest max_retries argument explored (the default of the code is 2)
MaxRetriesBound == 2
\* number of _invoke_with_retry calls made on one engine
MaxCalls == 2

\* ------------------------------------------------------------- constants
None == "None"

\* the two LangChain chat model objects and their model names
ChatGoogleGenerativeAI == "ChatGoogleGenerativeAI"
ChatOpenAI == "ChatOpenAI"
GeminiModel == "gemini-2.5-flash"
OpenAIModel == "gpt-5-nano"

\* model name given to each chat model object at construction
ModelName(llm) ==
    IF llm = ChatGoogleGenerativeAI THEN GeminiModel
    ELSE IF llm = ChatOpenAI THEN OpenAIModel
    ELSE None

\* values a settings key can have: missing, empty string, a real key
KeyValues == {None, "", "key"}

\* Python truthiness of a settings key (line 30, 46: `if google_api_key:`)
Truthy(k) == k /= None /\ k /= ""

\* ---------------------------------------------------- error message text
\* str(e) is modelled as a sequence of characters
UpperCase == <<"A","B","C","D","E","F","G","H","I","J","K","L","M",
               "N","O","P","Q","R","S","T","U","V","W","X","Y","Z">>
LowerCase == <<"a","b","c","d","e","f","g","h","i","j","k","l","m",
               "n","o","p","q","r","s","t","u","v","w","x","y","z">>

\* str.lower() on one character
lower_char(c) ==
    IF \E i \in 1..Len(UpperCase) : UpperCase[i] = c
    THEN LowerCase[CHOOSE i \in 1..Len(UpperCase) : UpperCase[i] = c]
    ELSE c

\* str.lower()
lower(s) == [i \in 1..Len(s) |-> lower_char(s[i])]

\* the `in` operator on strings: sub occurs in s
Contains(sub, s) ==
    \E i \in 1..(Len(s) + 1) :
        /\ i + Len(sub) - 1 <= Len(s)
        /\ SubSeq(s, i, i + Len(sub) - 1) = sub

Kw429 == <<"4","2","9">>
KwRate == <<"r","a","t","e">>
KwResourceExhausted == <<"r","e","s","o","u","r","c","e","_",
                         "e","x","h","a","u","s","t","e","d">>
KwQuota == <<"q","u","o","t","a">>
KwConnection == <<"c","o","n","n","e","c","t","i","o","n">>
KwTimeout == <<"t","i","m","e","o","u","t">>

\* lines 138-149: the retriable classification of an exception message
is_retriable(msg) ==
    LET error_str == lower(msg) IN
        \/ Contains(Kw429, error_str)
        \/ Contains(KwRate, error_str)
        \/ Contains(KwResourceExhausted, error_str)
        \/ Contains(KwQuota, error_str)
        \/ Contains(KwConnection, error_str)
        \/ Contains(KwTimeout, error_str)

\* messages the provider calls fail with
MsgRateLimit == <<"R","a","t","e"," ","l","i","m","i","t">>
MsgHttp429 == <<"H","T","T","P"," ","4","2","9">>
MsgInvalidKey == <<"I","n","v","a","l","i","d"," ","A","P","I"," ","k","e","y">>
MsgBadRequest == <<"B","a","d"," ","r","e","q","u","e","s","t">>
ErrorMessages == {MsgRateLimit, MsgHttp429, MsgInvalidKey, MsgBadRequest}

\* response.content values of successful provider calls
Texts == {"text_a", "text_b"}

\* exception values: an exception raised by a provider call carries its
\* message and its identity (the chat model that raised it and the position
\* of the call in the invocation)
NoError == [type |-> "None", msg |-> <<>>, by |-> None, seq |-> 0]
ProviderError(m, llm, n) == [type |-> "Exception", msg |-> m, by |-> llm, seq |-> n]
\* `raise None` raises TypeError: exceptions must derive from BaseException
TypeError == [type |-> "TypeError", msg |-> <<>>, by |-> None, seq |-> 0]

\* ------------------------------------------------ model responses as text
\* A response is a sequence of lexical tokens: the punctuation of JSON, string
\* literals (without braces or brackets inside), integers, numbers with a
\* fraction (in hundredths), the literals null/true/false, and words of prose.
Punct(c) == [k |-> "punct", s |-> c, n |-> 0]
StrTok(x) == [k |-> "str", s |-> x, n |-> 0]
IntTok(v) == [k |-> "int", s |-> "", n |-> v]
FloatTok(v) == [k |-> "float", s |-> "", n |-> v]
LitTok(x) == [k |-> "lit", s |-> x, n |-> 0]
TextTok(x) == [k |-> "text", s |-> x, n |-> 0]
LBrace == Punct("{")
RBrace == Punct("}")
LBracket == Punct("[")
RBracket == Punct("]")
Comma == Punct(",")
Colon == Punct(":")

\* Python values that json.loads and the parsers produce
PyNone == [t |-> "NoneType", n |-> 0, s |-> "", items |-> <<>>]
PyBool(b) == [t |-> "bool", n |-> IF b THEN 1 ELSE 0, s |-> "", items |-> <<>>]
PyInt(v) == [t |-> "int", n |-> v, s |-> "", items |-> <<>>]
\* a float, in hundredths
PyFloat(v) == [t |-> "float", n |-> v, s |-> "", items |-> <<>>]
PyStr(x) == [t |-> "str", n |-> 0, s |-> x, items |-> <<>>]
PyList(xs) == [t |-> "list", n |-> 0, s |-> "", items |-> xs]
\* a dict is the sequence of its key/value pairs in source order
PyDict(pairs) == [t |-> "dict", n |-> 0, s |-> "", items |-> pairs]

\* json.loads: recursive descent over the tokens
ParseOk(v, next) == [ok |-> TRUE, v |-> v, next |-> next]
ParseFail == [ok |-> FALSE, v |-> PyNone, next |-> 0]
TokAt(toks, i, tk) == i <= Len(toks) /\ toks[i] = tk

RECURSIVE parse_value(_, _), parse_elements(_, _, _), parse_members(_, _, _)
parse_value(toks, i) ==
    IF i > Len(toks) THEN ParseFail
    ELSE LET tk == toks[i] IN
        CASE tk.k = "str" -> ParseOk(PyStr(tk.s), i + 1)
          [] tk.k = "int" -> ParseOk(PyInt(tk.n), i + 1)
          [] tk.k = "float" -> ParseOk(PyFloat(tk.n), i + 1)
          [] tk.k = "lit" ->
                ParseOk(IF tk.s = "null" THEN PyNone ELSE PyBool(tk.s = "true"), i + 1)
          [] tk = LBracket ->
                IF TokAt(toks, i + 1, RBracket)
                THEN ParseOk(PyList(<<>>), i + 2)
                ELSE parse_elements(toks, i + 1, <<>>)
          [] tk = LBrace ->
                IF TokAt(toks, i + 1, RBrace)
                THEN ParseOk(PyDict(<<>>), i + 2)
                ELSE parse_members(toks, i + 1, <<>>)
          [] OTHER -> ParseFail

parse_elements(toks, i, acc) ==
    LET r == parse_value(toks, i) IN
        IF ~r.ok THEN ParseFail
        ELSE IF TokAt(toks, r.next, Comma)
             THEN parse_elements(toks, r.next + 1, Append(acc, r.v))
        ELSE IF TokAt(toks, r.next, RBracket)
             THEN ParseOk(PyList(Append(acc, r.v)), r.next + 1)
        ELSE ParseFail

parse_members(toks, i, acc) ==
    IF ~(i <= Len(toks) /\ toks[i].k = "str" /\ TokAt(toks, i + 1, Colon))
    THEN ParseFail
    ELSE LET r == parse_value(toks, i + 2)
             pair == [key |-> toks[i].s, val |-> r.v]
         IN  IF ~r.ok THEN ParseFail
             ELSE IF TokAt(toks, r.next, Comma)
                  THEN parse_members(toks, r.next + 1, Append(acc, pair))
             ELSE IF TokAt(toks, r.next, RBrace)
                  THEN ParseOk(PyDict(Append(acc, pair)), r.next + 1)
             ELSE ParseFail

\* json.loads(text): the whole text is one JSON value, else JSONDecodeError
json_loads(toks) ==
    LET r == parse_value(toks, 1) IN
        IF r.ok /\ r.next = Len(toks) + 1
        THEN [ok |-> TRUE, v |-> r.v]
        ELSE [ok |-> FALSE, v |-> PyNone]

\* dict.get(key, default): the last pair with that key wins in json.loads
dict_get(d, key, default) ==
    LET idx == {i \in DOMAIN d.items : d.items[i].key = key} IN
        IF idx = {} THEN default
        ELSE d.items[CHOOSE i \in idx : \A j \in idx : j <= i].val

\* strings that float() accepts, with their value in hundredths
NumericStrings == {"0.9", "1"}
float_of_str(x) == IF x = "0.9" THEN 90 ELSE 100

\* float(v): the value, or the exception it raises
py_float(v) ==
    CASE v.t = "float" -> [ok |-> TRUE, v |-> v, exc |-> None]
      [] v.t \in {"int", "bool"} -> [ok |-> TRUE, v |-> PyFloat(100 * v.n), exc |-> None]
      [] v.t = "str" ->
            IF v.s \in NumericStrings
            THEN [ok |-> TRUE, v |-> PyFloat(float_of_str(v.s)), exc |-> None]
            ELSE [ok |-> FALSE, v |-> PyNone, exc |-> "ValueError"]
      [] OTHER -> [ok |-> FALSE, v |-> PyNone, exc |-> "TypeError"]

\* re.search(r'\{[^{}]*\}', response, re.DOTALL): the leftmost `{` whose next
\* brace is a `}`; the match as <<first, last>>, <<0, 0>> when there is none
search_flat_object(toks) ==
    LET closes(i) == {j \in (i + 1)..Len(toks) :
                        /\ toks[j] = RBrace
                        /\ \A m \in (i + 1)..(j - 1) : toks[m] \notin {LBrace, RBrace}}
        starts == {i \in DOMAIN toks : toks[i] = LBrace /\ closes(i) /= {}}
    IN  IF starts = {} THEN <<0, 0>>
        ELSE LET i == CHOOSE x \in starts : \A y \in starts : x <= y
             IN  <<i, CHOOSE j \in closes(i) : TRUE>>

\* re.search(r'\[[\s\S]*\]', response): greedy, from the first `[` to the
\* last `]` behind it
search_array(toks) ==
    LET opens == {i \in DOMAIN toks : toks[i] = LBracket}
        i == IF opens = {} THEN 0 ELSE CHOOSE x \in opens : \A y \in opens : x <= y
        ends == {j \in DOMAIN toks : toks[j] = RBracket /\ j > i}
    IN  IF opens = {} \/ ends = {} THEN <<0, 0>>
        ELSE <<i, CHOOSE x \in ends : \A y \in ends : y <= x>>

\* line 105: the batch limit
BatchLimit == 20

\* a batch call that forgets to cut the list
truncate_batch_none(mails_data) == mails_data

\* lines 105-106: the mails a batch call keeps
truncate_batch(mails_data) ==
    IF Len(mails_data) > BatchLimit THEN SubSeq(mails_data, 1, BatchLimit) ELSE mails_data

\* lines 193-202: the mail blocks of the batch prompt, one per mail, by id
format_emails(mails) == [i \in 1..Len(mails) |-> mails[i].id]

FolderUnclassified == "Unclassified"
ParseFailureReason == "parse failure"

\* lines 219-224: the fixed fallback result
fallback_result ==
    [folder_path |-> PyStr(FolderUnclassified), is_new_folder |-> PyBool(FALSE),
     confidence |-> PyFloat(0), reason |-> PyStr(ParseFailureReason)]

Return(v) == [kind |-> "return", value |-> v, exc |-> None]
Raise(e) == [kind |-> "raise", value |-> PyNone, exc |-> e]

\* an except clause that names ValueError but misses its subclass
parse_catches_strict(exc) == exc = "ValueError"

\* the exceptions the parsers catch (lines 216, 242); JSONDecodeError is a
\* ValueError
parse_catches(exc) == exc \in {"JSONDecodeError", "ValueError"}

\* LLMClient._parse_response
parse_response(response) ==
    LET m == search_flat_object(response)
        data == json_loads(SubSeq(response, m[1], m[2]))
        conf == py_float(dict_get(data.v, "confidence", PyFloat(50)))
    IN  IF m = <<0, 0>> THEN Return(fallback_result)
        ELSE IF ~data.ok
        THEN (IF parse_catches("JSONDecodeError")
              THEN Return(fallback_result)
              ELSE Raise("JSONDecodeError"))
        ELSE IF conf.ok
        THEN Return([folder_path |-> dict_get(data.v, "folder_path", PyStr(FolderUnclassified)),
                     is_new_folder |-> dict_get(data.v, "is_new_folder", PyBool(FALSE)),
                     confidence |-> conf.v,
                     reason |-> dict_get(data.v, "reason", PyStr(""))])
        ELSE IF parse_catches(conf.exc) THEN Return(fallback_result)
        ELSE Raise(conf.exc)

\* lines 234-240: the entry built from one element of the array, or the
\* exception raised while building it
batch_entry(item) ==
    IF item.t /= "dict" THEN Raise("AttributeError")
    ELSE LET conf == py_float(dict_get(item, "confidence", PyFloat(50))) IN
        IF conf.ok
        THEN Return([mail_id |-> dict_get(item, "mail_id", PyNone),
                     folder_path |-> dict_get(item, "folder_path", PyStr(FolderUnclassified)),
                     is_new_folder |-> dict_get(item, "is_new_folder", PyBool(FALSE)),
                     confidence |-> conf.v,
                     reason |-> dict_get(item, "reason", PyStr(""))])
        ELSE Raise(conf.exc)

\* lines 232-241: the loop over the elements; stops at the first exception
RECURSIVE batch_entries(_, _, _)
batch_entries(items, i, acc) ==
    IF i > Len(items) THEN Return(acc)
    ELSE LET e == batch_entry(items[i]) IN
        IF e.kind = "raise" THEN e
        ELSE batch_entries(items, i + 1, Append(acc, e.value))

\* lines 245-254: one fallback entry per mail
fallback_entries(mails_data) ==
    [i \in 1..Len(mails_data) |->
        [mail_id |-> mails_data[i].id,
         folder_path |-> PyStr(FolderUnclassified),
         is_new_folder |-> PyBool(FALSE),
         confidence |-> PyFloat(0),
         reason |-> PyStr(ParseFailureReason)]]

\* LLMClient._parse_batch_response
parse_batch_response(response, mails_data) ==
    LET m == search_array(response)
        data == json_loads(SubSeq(response, m[1], m[2]))
        built == batch_entries(data.v.items, 1, <<>>)
    IN  IF m = <<0, 0>> THEN Return(fallback_entries(mails_data))
        ELSE IF ~data.ok
        THEN (IF parse_catches("JSONDecodeError")
              THEN Return(fallback_entries(mails_data))
              ELSE Raise("JSONDecodeError"))
        ELSE IF built.kind = "return" THEN built
        ELSE IF parse_catches(built.exc) THEN Return(fallback_entries(mails_data))
        ELSE built

\* ------------------------------------------------------------------ state
VARIABLES
    google_api_key,     \* settings.GOOGLE_API_KEY
    openai_api_key,     \* settings.OPENAI_API_KEY
    gemini_raised,      \* ChatGoogleGenerativeAI(...) raised during __init__
    openai_raised,      \* ChatOpenAI(...) raised during __init__
    primary_llm,        \* self.primary_llm
    fallback_llm,       \* self.fallback_llm
    primary_provider,   \* self.primary_provider
    fallback_provider,  \* self.fallback_provider
    llm,                \* self.llm
    provider,           \* self.provider (last provider used)
    init_error,         \* code of the ValidationError raised by __init__
    pc,                 \* position of the program
    max_retries,        \* argument of the running _invoke_with_retry
    attempt,            \* loop variable of the running loop
    last_error,         \* local last_error
    result,             \* value returned by the last finished call
    raised,             \* exception raised by the last finished call
    trace,              \* provider calls and sleeps of the running call
    provider_before,    \* self.provider when the running call started
    served,             \* number of calls that returned a text so far
    calls               \* number of _invoke_with_retry calls started

\* state of one classify_mail / classify_mails_batch / parser call
VARIABLES
    cl_invoke,          \* what _invoke_with_retry does for this call
    cl_mails,           \* argument mails_data
    cl_op,              \* the operation that ran ("none" before it runs)
    cl_prompt,          \* mail blocks of the prompt that was sent
    cl_out              \* what the operation returned or raised

\* callers that use one engine at the same time, one call each
VARIABLES
    t_pc,               \* position of each caller
    t_max_retries,      \* its argument max_retries
    t_attempt,          \* its loop variable
    t_last_error,       \* its local last_error
    t_trace,            \* its provider calls and sleeps
    t_result,           \* the value its call returned
    t_raised            \* the exception its call raised

\* the database and one run of the soft_reset command
VARIABLES
    db_mails,           \* Mail rows: id -> [is_classified, folder]
    db_folders,         \* ids of the Folder rows
    db_before,          \* the rows when the run started
    sr_options,         \* options of the run
    sr_stdout,          \* lines the run wrote
    sr_pc               \* position of the run

classify == <<cl_invoke, cl_mails, cl_op, cl_prompt, cl_out>>
threads == <<t_pc, t_max_retries, t_attempt, t_last_error, t_trace, t_result, t_raised>>
store == <<db_mails, db_folders, db_before, sr_options, sr_stdout, sr_pc>>
other_state == <<classify, threads, store>>

engine == <<primary_llm, fallback_llm, primary_provider, fallback_provider, llm>>
ctor == <<google_api_key, openai_api_key, gemini_raised, openai_raised, init_error>>
locals == <<max_retries, attempt, last_error, result, raised, trace,
            provider_before, served, calls>>
vars == <<google_api_key, openai_api_key, gemini_raised, openai_raised,
          primary_llm, fallback_llm, primary_provider, fallback_provider,
          llm, provider, init_error, pc, max_retries, attempt, last_error,
          result, raised, trace, provider_before, served, calls,
          cl_invoke, cl_mails, cl_op, cl_prompt, cl_out,
          t_pc, t_max_retries, t_attempt, t_last_error, t_trace, t_result,
          t_raised, db_mails, db_folders, db_before, sr_options, sr_stdout, sr_pc>>

\* the callers of the concurrent model
Threads == {"t1", "t2"}

\* no classification call is modelled
ClassifyIdle ==
    /\ cl_invoke = [ok |-> FALSE, text |-> <<>>, err |-> NoError]
    /\ cl_mails = <<>>
    /\ cl_op = "none"
    /\ cl_prompt = <<>>
    /\ cl_out = Return(PyNone)

\* no concurrent caller is modelled
ThreadsIdle ==
    /\ t_pc = [t \in Threads |-> "off"]
    /\ t_max_retries = [t \in Threads |-> 0]
    /\ t_attempt = [t \in Threads |-> 0]
    /\ t_last_error = [t \in Threads |-> NoError]
    /\ t_trace = [t \in Threads |-> <<>>]
    /\ t_result = [t \in Threads |-> None]
    /\ t_raised = [t \in Threads |-> NoError]

\* no run of soft_reset is modelled
StoreIdle ==
    /\ db_mails = <<>>
    /\ db_folders = {}
    /\ db_before = [mails |-> <<>>, folders |-> {}]
    /\ sr_options = [folders_only |-> FALSE, mails_only |-> FALSE]
    /\ sr_stdout = <<>>
    /\ sr_pc = "off"

\* no LLMClient has been constructed
EngineFresh ==
    /\ gemini_raised = FALSE
    /\ openai_raised = FALSE
    /\ primary_llm = None
    /\ fallback_llm = None
    /\ primary_provider = None
    /\ fallback_provider = None
    /\ llm = None
    /\ provider = None
    /\ init_error = None
    /\ pc = "new"
    /\ max_retries = 0
    /\ attempt = 0
    /\ last_error = NoError
    /\ result = None
    /\ raised = NoError
    /\ trace = <<>>
    /\ provider_before = None
    /\ served = 0
    /\ calls = 0

\* before LLMClient() is called: the settings are whatever the deployment has
Init ==
    /\ google_api_key \in KeyValues
    /\ openai_api_key \in KeyValues
    /\ EngineFresh
    /\ ClassifyIdle
    /\ ThreadsIdle
    /\ StoreIdle

\* ------------------------------------------------------------ __init__
\* lines 29-43: the Gemini slot after the first construction attempt
init_primary(key, ctor_raises) ==
    IF Truthy(key) /\ ~ctor_raises
    THEN [llm |-> ChatGoogleGenerativeAI, provider |-> GeminiModel]
    ELSE [llm |-> None, provider |-> None]

\* lines 45-59: the OpenAI slot after the second construction attempt
init_fallback(key, ctor_raises) ==
    IF Truthy(key) /\ ~ctor_raises
    THEN [llm |-> ChatOpenAI, provider |-> OpenAIModel]
    ELSE [llm |-> None, provider |-> None]

\* promotion that forgets to clear the fallback slot (lines 65-66 dropped)
promote_keep_fallback(p, f) ==
    IF p.llm = None /\ f.llm /= None
    THEN [primary |-> f, fallback |-> f]
    ELSE [primary |-> p, fallback |-> f]

\* no promotion at all (lines 62-67 dropped)
promote_never(p, f) == [primary |-> p, fallback |-> f]

\* lines 61-67: promotion of the fallback when there is no primary
promote(p, f) ==
    IF p.llm = None /\ f.llm /= None
    THEN [primary |-> f, fallback |-> [llm |-> None, provider |-> None]]
    ELSE [primary |-> p, fallback |-> f]

\* lines 69-73: the constructor raises when no primary is left
not_configured(slots) == slots.primary.llm = None

\* LLMClient.__init__
LLMClient_init ==
    /\ pc = "new"
    /\ \E g_raises \in BOOLEAN, o_raises \in BOOLEAN :
        LET p == init_primary(google_api_key, g_raises)
            f == init_fallback(openai_api_key, o_raises)
            slots == promote(p, f)
        IN  /\ gemini_raised' = (Truthy(google_api_key) /\ g_raises)
            /\ openai_raised' = (Truthy(openai_api_key) /\ o_raises)
            /\ primary_llm' = slots.primary.llm
            /\ primary_provider' = slots.primary.provider
            /\ fallback_llm' = slots.fallback.llm
            /\ fallback_provider' = slots.fallback.provider
            /\ IF not_configured(slots)
               THEN /\ init_error' = "LLM_NOT_CONFIGURED"
                    /\ pc' = "init_failed"
                    /\ UNCHANGED <<llm, provider>>
               ELSE /\ init_error' = None
                    /\ pc' = "idle"
                    /\ llm' = slots.primary.llm
                    /\ provider' = slots.primary.provider
    /\ UNCHANGED <<google_api_key, openai_api_key>>
    /\ UNCHANGED locals
    /\ UNCHANGED other_state

\* ----------------------------------------------------- _invoke_with_retry
CallEvent(target, ok, text, err) ==
    [kind |-> "call", llm |-> target, ok |-> ok, text |-> text, err |-> err, secs |-> 0]
SleepEvent(secs) ==
    [kind |-> "sleep", llm |-> None, ok |-> FALSE, text |-> None, err |-> NoError, secs |-> secs]

\* lines 175-177: the chat model _invoke_llm really calls
_invoke_llm(l) == IF l = None THEN primary_llm ELSE l

\* backoff that grows linearly instead of doubling
primary_wait_time_linear(k, e) ==
    IF is_retriable(e.msg) THEN (2 * k) * 2 ELSE 1

\* lines 151-156: seconds slept after a failed primary attempt
primary_wait_time(k, e) ==
    IF is_retriable(e.msg) THEN (2 ^ k) * 2 ELSE 1

\* line 169: seconds slept after a failed fallback attempt
fallback_wait_time(k) == 2 ^ k

\* a loop that runs one iteration short: range(max_retries - 1)
in_range_short(k, n) == k < n - 1

\* line 131 / 161: `for attempt in range(max_retries)` has another iteration
in_range(k, n) == k < n

\* the fallback loop entered without the `is not None` test
has_fallback_always == TRUE

\* line 159: the fallback loop is entered
has_fallback == fallback_llm /= None

\* a success branch without its `return`: the loop goes on
attempt_success_no_return(target, name, t) ==
    /\ trace' = Append(trace, CallEvent(target, TRUE, t, NoError))
    /\ provider' = name
    /\ result' = t
    /\ served' = served + 1
    /\ pc' = IF target = primary_llm THEN "primary_except" ELSE "fallback_except"
    /\ UNCHANGED last_error

\* lines 133-135 / 163-165: the provider call returned a text
attempt_success(target, name, t) ==
    /\ trace' = Append(trace, CallEvent(target, TRUE, t, NoError))
    /\ provider' = name
    /\ result' = t
    /\ served' = served + 1
    /\ pc' = "returned"
    /\ UNCHANGED last_error

\* an except branch that keeps the first error instead of the latest
attempt_failure_keep_first(target, name, m, except_pc) ==
    LET e == ProviderError(m, target, Len(trace) + 1) IN
    /\ trace' = Append(trace, CallEvent(target, FALSE, None, e))
    /\ last_error' = IF last_error = NoError THEN e ELSE last_error
    /\ pc' = except_pc
    /\ UNCHANGED <<provider, result, served>>

\* an except branch that records the provider although its call failed
attempt_failure_marks_provider(target, name, m, except_pc) ==
    LET e == ProviderError(m, target, Len(trace) + 1) IN
    /\ trace' = Append(trace, CallEvent(target, FALSE, None, e))
    /\ last_error' = e
    /\ provider' = name
    /\ pc' = except_pc
    /\ UNCHANGED <<result, served>>

\* lines 136-137 / 166-167: the provider call raised
attempt_failure(target, name, m, except_pc) ==
    LET e == ProviderError(m, target, Len(trace) + 1) IN
    /\ trace' = Append(trace, CallEvent(target, FALSE, None, e))
    /\ last_error' = e
    /\ pc' = except_pc
    /\ UNCHANGED <<provider, result, served>>

\* lines 126-128: a caller enters _invoke_with_retry
invoke_with_retry_begin ==
    /\ pc \in {"idle", "returned", "raised"}
    /\ calls < MaxCalls
    /\ \E m \in 0..MaxRetriesBound : max_retries' = m
    /\ calls' = calls + 1
    /\ last_error' = NoError
    /\ attempt' = 0
    /\ trace' = <<>>
    /\ result' = None
    /\ raised' = NoError
    /\ provider_before' = provider
    /\ pc' = "primary_loop"
    /\ UNCHANGED <<provider, served>>
    /\ UNCHANGED engine
    /\ UNCHANGED ctor
    /\ UNCHANGED other_state

\* lines 132-137: one primary attempt, returning on success
primary_try ==
    /\ pc = "primary_loop"
    /\ in_range(attempt, max_retries)
    /\ LET target == _invoke_llm(primary_llm) IN
        \/ \E t \in Texts : attempt_success(target, primary_provider, t)
        \/ \E m \in ErrorMessages : attempt_failure(target, primary_provider, m, "primary_except")
    /\ UNCHANGED <<max_retries, attempt, raised, provider_before, calls>>
    /\ UNCHANGED engine
    /\ UNCHANGED ctor
    /\ UNCHANGED other_state

\* an except branch that gives up at once on a non-retriable error
primary_except_short_circuit ==
    /\ pc = "primary_except"
    /\ IF is_retriable(last_error.msg)
       THEN /\ trace' = Append(trace, SleepEvent((2 ^ attempt) * 2))
            /\ attempt' = attempt + 1
            /\ pc' = "primary_loop"
       ELSE /\ pc' = "raise"
            /\ UNCHANGED <<trace, attempt>>
    /\ UNCHANGED <<max_retries, last_error, result, raised, provider_before,
                   served, calls, provider>>
    /\ UNCHANGED engine
    /\ UNCHANGED ctor
    /\ UNCHANGED other_state

\* an except branch that does not advance to the next iteration
primary_except_no_advance ==
    /\ pc = "primary_except"
    /\ trace' = Append(trace, SleepEvent(primary_wait_time(attempt, last_error)))
    /\ attempt' = attempt
    /\ pc' = "primary_loop"
    /\ UNCHANGED <<max_retries, last_error, result, raised, provider_before,
                   served, calls, provider>>
    /\ UNCHANGED engine
    /\ UNCHANGED ctor
    /\ UNCHANGED other_state

\* lines 138-156: the except branch of the primary loop
primary_except ==
    /\ pc = "primary_except"
    /\ trace' = Append(trace, SleepEvent(primary_wait_time(attempt, last_error)))
    /\ attempt' = attempt + 1
    /\ pc' = "primary_loop"
    /\ UNCHANGED <<max_retries, last_error, result, raised, provider_before,
                   served, calls, provider>>
    /\ UNCHANGED engine
    /\ UNCHANGED ctor
    /\ UNCHANGED other_state

\* lines 131, 158-160: the primary loop is over
primary_exhausted ==
    /\ pc = "primary_loop"
    /\ ~in_range(attempt, max_retries)
    /\ IF has_fallback
       THEN /\ pc' = "fallback_loop"
            /\ attempt' = 0
       ELSE /\ pc' = "raise"
            /\ UNCHANGED attempt
    /\ UNCHANGED <<max_retries, last_error, result, raised, trace,
                   provider_before, served, calls, provider>>
    /\ UNCHANGED engine
    /\ UNCHANGED ctor
    /\ UNCHANGED other_state

\* a fallback attempt whose success makes the fallback the new primary
fallback_try_promotes ==
    /\ pc = "fallback_loop"
    /\ in_range(attempt, max_retries)
    /\ LET target == _invoke_llm(fallback_llm) IN
        \/ /\ \E t \in Texts : attempt_success(target, fallback_provider, t)
           /\ primary_llm' = fallback_llm
           /\ primary_provider' = fallback_provider
           /\ fallback_llm' = primary_llm
           /\ fallback_provider' = primary_provider
           /\ UNCHANGED llm
        \/ /\ \E m \in ErrorMessages : attempt_failure(target, fallback_provider, m, "fallback_except")
           /\ UNCHANGED engine
    /\ UNCHANGED <<max_retries, attempt, raised, provider_before, calls>>
    /\ UNCHANGED ctor
    /\ UNCHANGED other_state

\* lines 162-167: one fallback attempt, returning on success
fallback_try ==
    /\ pc = "fallback_loop"
    /\ in_range(attempt, max_retries)
    /\ LET target == _invoke_llm(fallback_llm) IN
        \/ \E t \in Texts : attempt_success(target, fallback_provider, t)
        \/ \E m \in ErrorMessages : attempt_failure(target, fallback_provider, m, "fallback_except")
    /\ UNCHANGED <<max_retries, attempt, raised, provider_before, calls>>
    /\ UNCHANGED engine
    /\ UNCHANGED ctor
    /\ UNCHANGED other_state

\* lines 166-169: the except branch of the fallback loop
fallback_except ==
    /\ pc = "fallback_except"
    /\ trace' = Append(trace, SleepEvent(fallback_wait_time(attempt)))
    /\ attempt' = attempt + 1
    /\ pc' = "fallback_loop"
    /\ UNCHANGED <<max_retries, last_error, result, raised, provider_before,
                   served, calls, provider>>
    /\ UNCHANGED engine
    /\ UNCHANGED ctor
    /\ UNCHANGED other_state

\* line 161: the fallback loop is over
fallback_exhausted ==
    /\ pc = "fallback_loop"
    /\ ~in_range(attempt, max_retries)
    /\ pc' = "raise"
    /\ UNCHANGED <<max_retries, attempt, last_error, result, raised, trace,
                   provider_before, served, calls, provider>>
    /\ UNCHANGED engine
    /\ UNCHANGED ctor
    /\ UNCHANGED other_state

\* line 171: raise last_error
raise_last_error ==
    /\ pc = "raise"
    /\ raised' = IF last_error = NoError THEN TypeError ELSE last_error
    /\ pc' = "raised"
    /\ UNCHANGED <<max_retries, attempt, last_error, result, trace,
                   provider_before, served, calls, provider>>
    /\ UNCHANGED engine
    /\ UNCHANGED ctor
    /\ UNCHANGED other_state

Next ==
    \/ LLMClient_init
    \/ invoke_with_retry_begin
    \/ primary_try
    \/ primary_except
    \/ primary_exhausted
    \/ fallback_try
    \/ fallback_except
    \/ fallback_exhausted
    \/ raise_last_error

Spec == Init /\ [][Next]_vars

\* the thread that runs a call goes on while its provider calls and its
\* sleeps return
LiveSpec ==
    /\ Spec
    /\ WF_vars(primary_try)
    /\ WF_vars(primary_except)
    /\ WF_vars(primary_exhausted)
    /\ WF_vars(fallback_try)
    /\ WF_vars(fallback_except)
    /\ WF_vars(fallback_exhausted)
    /\ WF_vars(raise_last_error)

\* ------------------------------------- classify_mail, classify_mails_batch
\* longest generated response, in tokens
MaxTokens == 3
\* largest mails_data list
MaxMails == 22

\* responses a provider may return
RespReceipts ==
    <<LBrace, StrTok("folder_path"), Colon, StrTok("Receipts"), Comma,
      StrTok("confidence"), Colon, FloatTok(90), RBrace>>
RespFull ==
    <<TextTok("Sure"), LBrace, StrTok("folder_path"), Colon, StrTok("Work"), Comma,
      StrTok("is_new_folder"), Colon, LitTok("true"), Comma,
      StrTok("confidence"), Colon, IntTok(1), Comma,
      StrTok("reason"), Colon, StrTok("invoice"), RBrace, TextTok("done")>>
RespNumericString == <<LBrace, StrTok("confidence"), Colon, StrTok("0.9"), RBrace>>
RespWordConfidence == <<LBrace, StrTok("confidence"), Colon, StrTok("high"), RBrace>>
RespNullConfidence == <<LBrace, StrTok("confidence"), Colon, LitTok("null"), RBrace>>
RespListConfidence ==
    <<LBrace, StrTok("confidence"), Colon, LBracket, IntTok(1), RBracket, RBrace>>
RespUnquoted == <<LBrace, TextTok("folder_path"), Colon, StrTok("Work"), RBrace>>
RespNested ==
    <<LBrace, StrTok("result"), Colon, LBrace, StrTok("folder_path"), Colon,
      StrTok("Work"), RBrace, RBrace>>
BatchEcho ==
    <<LBracket,
      LBrace, StrTok("mail_id"), Colon, IntTok(2), Comma,
      StrTok("folder_path"), Colon, StrTok("Work"), RBrace, Comma,
      LBrace, StrTok("mail_id"), Colon, IntTok(1), Comma,
      StrTok("confidence"), Colon, FloatTok(90), RBrace,
      RBracket>>
BatchUnknownId ==
    <<TextTok("Result"), LBracket,
      LBrace, StrTok("mail_id"), Colon, IntTok(99), RBrace, RBracket>>
BatchNullConfidence ==
    <<LBracket, LBrace, StrTok("mail_id"), Colon, IntTok(1), Comma,
      StrTok("confidence"), Colon, LitTok("null"), RBrace, RBracket>>
BatchWordConfidence ==
    <<LBracket, LBrace, StrTok("mail_id"), Colon, IntTok(1), Comma,
      StrTok("confidence"), Colon, StrTok("high"), RBrace, RBracket>>
BatchNumbers == <<LBracket, IntTok(1), Comma, IntTok(2), RBracket>>
BatchTrailing ==
    <<LBracket, LBrace, StrTok("mail_id"), Colon, IntTok(1), RBrace, RBracket,
      TextTok("see"), LBracket, IntTok(1), RBracket>>
SampleResponses ==
    {RespReceipts, RespFull, RespNumericString, RespWordConfidence,
     RespNullConfidence, RespListConfidence, RespUnquoted, RespNested,
     BatchEcho, BatchUnknownId, BatchNullConfidence, BatchWordConfidence,
     BatchNumbers, BatchTrailing}
GeneratedTokens == {LBrace, RBrace, LBracket, RBracket, LitTok("null"), TextTok("ok")}
GeneratedResponses == UNION {[1..n -> GeneratedTokens] : n \in 0..MaxTokens}
Responses == SampleResponses \cup GeneratedResponses

\* what _invoke_with_retry does for the call: it returns a response, or it
\* raises the last provider error after the retries and the fallback
InvokeOutcomes ==
    {[ok |-> TRUE, text |-> r, err |-> NoError] : r \in Responses}
    \cup {[ok |-> FALSE, text |-> <<>>, err |-> ProviderError(m, ChatOpenAI, 7)] :
            m \in {MsgRateLimit, MsgBadRequest}}

\* mails_data with n mails, with the ids 1..n
MailList(n) == [i \in 1..n |-> [id |-> PyInt(i)]]

ClassifyInit ==
    /\ google_api_key = None
    /\ openai_api_key = None
    /\ EngineFresh
    /\ cl_invoke \in InvokeOutcomes
    /\ cl_mails \in {MailList(n) : n \in 0..MaxMails}
    /\ cl_op = "none"
    /\ cl_prompt = <<>>
    /\ cl_out = Return(PyNone)
    /\ ThreadsIdle
    /\ StoreIdle

\* the ValidationError of lines 96-99 and 121-124; its message carries str(e)
ValidationError(code, e) ==
    [kind |-> "raise", value |-> PyNone, exc |-> "ValidationError",
     code |-> code, cause |-> e]

\* an exception raised by the parser itself
ParserError(name) == [type |-> name, msg |-> <<>>, by |-> None, seq |-> 0]

\* lines 91-99 / 116-124: try: invoke, parse; except Exception: raise
\* ValidationError
invoke_then_parse(parsed) ==
    IF ~cl_invoke.ok THEN ValidationError("LLM_API_ERROR", cl_invoke.err)
    ELSE IF parsed.kind = "raise"
         THEN ValidationError("LLM_API_ERROR", ParserError(parsed.exc))
         ELSE parsed

\* LLMClient._parse_response called on a response
parse_response_call ==
    /\ cl_op = "none"
    /\ cl_invoke.ok
    /\ cl_op' = "parse_response"
    /\ cl_out' = parse_response(cl_invoke.text)
    /\ UNCHANGED <<cl_invoke, cl_mails, cl_prompt>>
    /\ UNCHANGED <<engine, ctor, locals, provider, pc, threads, store>>

\* LLMClient._parse_batch_response called on a response
parse_batch_response_call ==
    /\ cl_op = "none"
    /\ cl_invoke.ok
    /\ cl_op' = "parse_batch_response"
    /\ cl_out' = parse_batch_response(cl_invoke.text, cl_mails)
    /\ UNCHANGED <<cl_invoke, cl_mails, cl_prompt>>
    /\ UNCHANGED <<engine, ctor, locals, provider, pc, threads, store>>

\* LLMClient.classify_mail
classify_mail ==
    /\ cl_op = "none"
    /\ cl_op' = "classify_mail"
    /\ cl_out' = invoke_then_parse(parse_response(cl_invoke.text))
    /\ UNCHANGED <<cl_invoke, cl_mails, cl_prompt>>
    /\ UNCHANGED <<engine, ctor, locals, provider, pc, threads, store>>

\* LLMClient.classify_mails_batch
classify_mails_batch ==
    /\ cl_op = "none"
    /\ cl_op' = "classify_mails_batch"
    /\ LET mails_data == truncate_batch(cl_mails) IN
        /\ cl_prompt' = format_emails(mails_data)
        /\ cl_out' = invoke_then_parse(parse_batch_response(cl_invoke.text, mails_data))
    /\ UNCHANGED <<cl_invoke, cl_mails>>
    /\ UNCHANGED <<engine, ctor, locals, provider, pc, threads, store>>

ClassifyNext ==
    \/ parse_response_call
    \/ parse_batch_response_call
    \/ classify_mail
    \/ classify_mails_batch

ClassifySpec == ClassifyInit /\ [][ClassifyNext]_vars

\* ------------------------------------------ concurrent _invoke_with_retry
\* largest max_retries argument of a concurrent caller
ConcMaxRetries == 2
ConcMessages == {MsgRateLimit, MsgBadRequest}

\* a constructed engine, and callers that have not called yet
ConcInit ==
    /\ \E g \in KeyValues, o \in KeyValues :
        LET slots == promote(init_primary(g, FALSE), init_fallback(o, FALSE)) IN
            /\ ~not_configured(slots)
            /\ google_api_key = g
            /\ openai_api_key = o
            /\ primary_llm = slots.primary.llm
            /\ primary_provider = slots.primary.provider
            /\ fallback_llm = slots.fallback.llm
            /\ fallback_provider = slots.fallback.provider
            /\ llm = slots.primary.llm
            /\ provider = slots.primary.provider
    /\ gemini_raised = FALSE
    /\ openai_raised = FALSE
    /\ init_error = None
    /\ pc = "idle"
    /\ max_retries = 0
    /\ attempt = 0
    /\ last_error = NoError
    /\ result = None
    /\ raised = NoError
    /\ trace = <<>>
    /\ provider_before = None
    /\ served = 0
    /\ calls = 0
    /\ t_pc = [t \in Threads |-> "idle"]
    /\ t_max_retries = [t \in Threads |-> 0]
    /\ t_attempt = [t \in Threads |-> 0]
    /\ t_last_error = [t \in Threads |-> NoError]
    /\ t_trace = [t \in Threads |-> <<>>]
    /\ t_result = [t \in Threads |-> None]
    /\ t_raised = [t \in Threads |-> NoError]
    /\ ClassifyIdle
    /\ StoreIdle

\* what a step of a caller leaves alone besides its own variables
conc_frame == <<engine, ctor, locals, pc, classify, store>>

\* lines 133 / 163: the provider call of caller t returned a text
conc_success(t, target, text, mark_pc) ==
    /\ t_trace' = [t_trace EXCEPT ![t] = Append(@, CallEvent(target, TRUE, text, NoError))]
    /\ t_result' = [t_result EXCEPT ![t] = text]
    /\ t_pc' = [t_pc EXCEPT ![t] = mark_pc]
    /\ UNCHANGED t_last_error

\* a last_error kept on the engine, shared by all callers, instead of a local
conc_failure_shared(t, target, m, except_pc) ==
    LET e == ProviderError(m, target, Len(t_trace[t]) + 1) IN
    /\ t_trace' = [t_trace EXCEPT ![t] = Append(@, CallEvent(target, FALSE, None, e))]
    /\ t_last_error' = [u \in Threads |-> e]
    /\ t_pc' = [t_pc EXCEPT ![t] = except_pc]
    /\ UNCHANGED t_result

\* lines 136-137 / 166-167: the provider call of caller t raised
conc_failure(t, target, m, except_pc) ==
    LET e == ProviderError(m, target, Len(t_trace[t]) + 1) IN
    /\ t_trace' = [t_trace EXCEPT ![t] = Append(@, CallEvent(target, FALSE, None, e))]
    /\ t_last_error' = [t_last_error EXCEPT ![t] = e]
    /\ t_pc' = [t_pc EXCEPT ![t] = except_pc]
    /\ UNCHANGED t_result

\* lines 126-128: caller t enters _invoke_with_retry
conc_begin(t) ==
    /\ t_pc[t] = "idle"
    /\ \E m \in 0..ConcMaxRetries : t_max_retries' = [t_max_retries EXCEPT ![t] = m]
    /\ t_pc' = [t_pc EXCEPT ![t] = "primary_loop"]
    /\ UNCHANGED <<t_attempt, t_last_error, t_trace, t_result, t_raised, provider>>
    /\ UNCHANGED conc_frame

\* lines 132-137: caller t calls the primary
conc_primary_try(t) ==
    /\ t_pc[t] = "primary_loop"
    /\ in_range(t_attempt[t], t_max_retries[t])
    /\ LET target == _invoke_llm(primary_llm) IN
        \/ \E text \in Texts : conc_success(t, target, text, "primary_mark")
        \/ \E m \in ConcMessages : conc_failure(t, target, m, "primary_except")
    /\ UNCHANGED <<t_max_retries, t_attempt, t_raised, provider>>
    /\ UNCHANGED conc_frame

\* lines 134-135: caller t records the primary and returns
conc_primary_mark(t) ==
    /\ t_pc[t] = "primary_mark"
    /\ provider' = primary_provider
    /\ t_pc' = [t_pc EXCEPT ![t] = "returned"]
    /\ UNCHANGED <<t_max_retries, t_attempt, t_last_error, t_trace, t_result, t_raised>>
    /\ UNCHANGED conc_frame

\* lines 138-156: caller t sleeps after a failed primary attempt
conc_primary_except(t) ==
    /\ t_pc[t] = "primary_except"
    /\ t_trace' = [t_trace EXCEPT ![t] =
            Append(@, SleepEvent(primary_wait_time(t_attempt[t], t_last_error[t])))]
    /\ t_attempt' = [t_attempt EXCEPT ![t] = @ + 1]
    /\ t_pc' = [t_pc EXCEPT ![t] = "primary_loop"]
    /\ UNCHANGED <<t_max_retries, t_last_error, t_result, t_raised, provider>>
    /\ UNCHANGED conc_frame

\* lines 131, 158-160: the primary loop of caller t is over
conc_primary_exhausted(t) ==
    /\ t_pc[t] = "primary_loop"
    /\ ~in_range(t_attempt[t], t_max_retries[t])
    /\ IF has_fallback
       THEN /\ t_pc' = [t_pc EXCEPT ![t] = "fallback_loop"]
            /\ t_attempt' = [t_attempt EXCEPT ![t] = 0]
       ELSE /\ t_pc' = [t_pc EXCEPT ![t] = "raise"]
            /\ UNCHANGED t_attempt
    /\ UNCHANGED <<t_max_retries, t_last_error, t_trace, t_result, t_raised, provider>>
    /\ UNCHANGED conc_frame

\* lines 162-167: caller t calls the fallback
conc_fallback_try(t) ==
    /\ t_pc[t] = "fallback_loop"
    /\ in_range(t_attempt[t], t_max_retries[t])
    /\ LET target == _invoke_llm(fallback_llm) IN
        \/ \E text \in Texts : conc_success(t, target, text, "fallback_mark")
        \/ \E m \in ConcMessages : conc_failure(t, target, m, "fallback_except")
    /\ UNCHANGED <<t_max_retries, t_attempt, t_raised, provider>>
    /\ UNCHANGED conc_frame

\* lines 164-165: caller t records the fallback and returns
conc_fallback_mark(t) ==
    /\ t_pc[t] = "fallback_mark"
    /\ provider' = fallback_provider
    /\ t_pc' = [t_pc EXCEPT ![t] = "returned"]
    /\ UNCHANGED <<t_max_retries, t_attempt, t_last_error, t_trace, t_result, t_raised>>
    /\ UNCHANGED conc_frame

\* lines 166-169: caller t sleeps after a failed fallback attempt
conc_fallback_except(t) ==
    /\ t_pc[t] = "fallback_except"
    /\ t_trace' = [t_trace EXCEPT ![t] = Append(@, SleepEvent(fallback_wait_time(t_attempt[t])))]
    /\ t_attempt' = [t_attempt EXCEPT ![t] = @ + 1]
    /\ t_pc' = [t_pc EXCEPT ![t] = "fallback_loop"]
    /\ UNCHANGED <<t_max_retries, t_last_error, t_result, t_raised, provider>>
    /\ UNCHANGED conc_frame

\* line 161: the fallback loop of caller t is over
conc_fallback_exhausted(t) ==
    /\ t_pc[t] = "fallback_loop"
    /\ ~in_range(t_attempt[t], t_max_retries[t])
    /\ t_pc' = [t_pc EXCEPT ![t] = "raise"]
    /\ UNCHANGED <<t_max_retries, t_attempt, t_last_error, t_trace, t_result,
                   t_raised, provider>>
    /\ UNCHANGED conc_frame

\* line 171: caller t raises its last_error
conc_raise(t) ==
    /\ t_pc[t] = "raise"
    /\ t_raised' = [t_raised EXCEPT ![t] =
            IF t_last_error[t] = NoError THEN TypeError ELSE t_last_error[t]]
    /\ t_pc' = [t_pc EXCEPT ![t] = "raised"]
    /\ UNCHANGED <<t_max_retries, t_attempt, t_last_error, t_trace, t_result, provider>>
    /\ UNCHANGED conc_frame

ConcNext ==
    \E t \in Threads :
        \/ conc_begin(t)
        \/ conc_primary_try(t)
        \/ conc_primary_mark(t)
        \/ conc_primary_except(t)
        \/ conc_primary_exhausted(t)
        \/ conc_fallback_try(t)
        \/ conc_fallback_mark(t)
        \/ conc_fallback_except(t)
        \/ conc_fallback_exhausted(t)
        \/ conc_raise(t)

ConcSpec == ConcInit /\ [][ConcNext]_vars

\* ------------------------------------------------------------- soft_reset
\* most Mail rows and most Folder rows in the database
MaxMailRows == 2
MaxFolderRows == 2
\* folder=None in a Mail row: no primary key is 0
NullFolder == 0

\* a database: every folder a mail refers to exists
Databases ==
    {[mails |-> ms, folders |-> fs] :
        fs \in SUBSET (1..MaxFolderRows),
        ms \in UNION {[1..n -> [is_classified : BOOLEAN,
                                folder : {NullFolder} \cup (1..MaxFolderRows)]] :
                        n \in 0..MaxMailRows}}

ValidDatabase(db) ==
    \A i \in DOMAIN db.mails :
        db.mails[i].folder /= NullFolder => db.mails[i].folder \in db.folders

\* the command is started with any combination of its two flags
ResetInit ==
    /\ google_api_key = None
    /\ openai_api_key = None
    /\ EngineFresh
    /\ ClassifyIdle
    /\ ThreadsIdle
    /\ \E db \in Databases :
          /\ ValidDatabase(db)
          /\ db_mails = db.mails
          /\ db_folders = db.folders
          /\ db_before = db
    /\ sr_options \in [folders_only : BOOLEAN, mails_only : BOOLEAN]
    /\ sr_stdout = <<>>
    /\ sr_pc = "start"

\* line 30
reset_mails(options) == ~options.folders_only
\* line 31
reset_folders(options) == ~options.mails_only

\* line 34: Mail.objects.update(is_classified=False, folder=None)
update_all_mails(mails) ==
    [i \in DOMAIN mails |-> [is_classified |-> FALSE, folder |-> NullFolder]]

\* Command.handle. What deleting a folder does to the Mail rows that still
\* refer to it is decided by the on_delete of Mail.folder in the models,
\* not by this command: the rows are left as the command wrote them.
handle ==
    /\ sr_pc = "start"
    /\ LET mails1 == IF reset_mails(sr_options)
                     THEN update_all_mails(db_mails) ELSE db_mails
           out1 == IF reset_mails(sr_options)
                   THEN <<[line |-> "mails reset", count |-> Len(db_mails)]>>
                   ELSE <<>>
           folders1 == IF reset_folders(sr_options) THEN {} ELSE db_folders
           out2 == IF reset_folders(sr_options)
                   THEN <<[line |-> "folders deleted", count |-> Cardinality(db_folders)]>>
                   ELSE <<>>
       IN  /\ db_mails' = mails1
           /\ db_folders' = folders1
           /\ sr_stdout' = out1 \o out2 \o <<[line |-> "soft reset complete", count |-> 0]>>
    /\ sr_pc' = "done"
    /\ UNCHANGED <<db_before, sr_options>>
    /\ UNCHANGED <<engine, ctor, locals, provider, pc, classify, threads>>

ResetNext == handle

ResetSpec == ResetInit /\ [][ResetNext]_vars

\* ---------------------------------------------------------------- claims
IsCall(ev) == ev.kind = "call"
IsSleep(ev) == ev.kind = "sleep"
\* positions in the trace of the running call of the calls made to chat model l
CallsTo(l) == {j \in DOMAIN trace : IsCall(trace[j]) /\ trace[j].llm = l}
AllCalls == {j \in DOMAIN trace : IsCall(trace[j])}
Constructed == pc \notin {"new", "init_failed"}
PreferredAvailable == Truthy(google_api_key) /\ ~gemini_raised
SecondaryAvailable == Truthy(openai_api_key) /\ ~openai_raised

\* C1: no call to the fallback provider happens before exactly max_retries
\* calls to the primary provider have all failed, and no call to the primary
\* provider happens after the first fallback call.
C1_FallbackAfterPrimaryExhausted ==
    \A i \in DOMAIN trace :
        (IsCall(trace[i]) /\ trace[i].llm = fallback_llm) =>
            /\ Cardinality({j \in CallsTo(primary_llm) : j < i}) = max_retries
            /\ \A j \in CallsTo(primary_llm) : j < i /\ ~trace[j].ok

C1_Witness ==
    /\ max_retries = 2
    /\ has_fallback
    /\ Cardinality(CallsTo(fallback_llm)) = 2
    /\ Cardinality(CallsTo(primary_llm)) = 2

\* C2: the call returns the text of the first provider call that succeeds and
\* returns at once: a successful provider call is the last event of its
\* invocation (no further call, no sleep), the invocation has then returned,
\* and the value returned is that call's text.
C2_ReturnsFirstSuccessAtOnce ==
    /\ \A i \in DOMAIN trace :
          (IsCall(trace[i]) /\ trace[i].ok) =>
              /\ i = Len(trace)
              /\ pc = "returned"
              /\ result = trace[i].text
    /\ pc = "returned" =>
          /\ Len(trace) >= 1
          /\ IsCall(trace[Len(trace)])
          /\ trace[Len(trace)].ok
    /\ pc /= "returned" => result = None

C2_Witness ==
    /\ pc = "returned"
    /\ Len(trace) = 5
    /\ trace[5].llm = fallback_llm
    /\ result = "text_b"

\* C3: the call fails only after the whole budget is used: when it has
\* raised, exactly max_retries calls went to the primary and, with a fallback
\* configured, exactly max_retries to the fallback, all of them failed,
\* whatever the class of the errors.
C3_FailsOnlyAfterFullBudget ==
    pc = "raised" =>
        /\ Cardinality(CallsTo(primary_llm)) = max_retries
        /\ fallback_llm /= None => Cardinality(CallsTo(fallback_llm)) = max_retries
        /\ fallback_llm = None => AllCalls = CallsTo(primary_llm)
        /\ AllCalls = CallsTo(primary_llm) \cup CallsTo(fallback_llm)
        /\ \A j \in AllCalls : ~trace[j].ok

C3_Witness ==
    /\ pc = "raised"
    /\ fallback_llm /= None
    /\ max_retries = 2
    /\ \A j \in CallsTo(primary_llm) : ~is_retriable(trace[j].err.msg)
    /\ \E j \in CallsTo(fallback_llm) : is_retriable(trace[j].err.msg)

\* C4: when no provider succeeded and an error was encountered, the call
\* fails with the most recent one: the error of the last fallback attempt
\* when a fallback is configured, of the last primary attempt otherwise.
C4_RaisesMostRecentError ==
    (pc = "raised" /\ AllCalls /= {}) =>
        LET n == CHOOSE j \in AllCalls : \A k \in AllCalls : k <= j IN
            /\ raised = trace[n].err
            /\ raised.type = "Exception"
            /\ trace[n].llm = IF fallback_llm /= None THEN fallback_llm ELSE primary_llm

C4_Witness ==
    /\ pc = "raised"
    /\ fallback_llm /= None
    /\ max_retries = 2
    /\ raised.msg = MsgBadRequest
    /\ \A j \in AllCalls : j < 7 => trace[j].err.msg = MsgRateLimit

\* 2^k by repeated doubling
RECURSIVE Doubled(_)
Doubled(k) == IF k = 0 THEN 1 ELSE 2 * Doubled(k - 1)

\* C5: every sleep follows a failed attempt, every failed attempt that is
\* behind is followed by a sleep, and the sleep after failed attempt number k
\* of a provider is 2 * 2^k seconds for a retriable primary failure, 1 second
\* for a non-retriable primary failure and 2^k seconds for a fallback failure.
C5_SleepSchedule ==
    /\ \A i \in DOMAIN trace :
          IsSleep(trace[i]) =>
              /\ i > 1
              /\ IsCall(trace[i - 1])
              /\ ~trace[i - 1].ok
              /\ LET prev == trace[i - 1]
                     k == Cardinality({j \in CallsTo(prev.llm) : j < i - 1})
                 IN  trace[i].secs =
                        IF prev.llm = primary_llm
                        THEN (IF is_retriable(prev.err.msg) THEN 2 * Doubled(k) ELSE 1)
                        ELSE Doubled(k)
    /\ \A i \in AllCalls :
          (~trace[i].ok /\ i < Len(trace)) => IsSleep(trace[i + 1])

C5_Witness ==
    /\ Len(trace) = 8
    /\ trace[2].secs = 1
    /\ trace[4].secs = 4
    /\ trace[6].secs = 1
    /\ trace[8].secs = 2

\* C6: every sleep of a call is followed by another provider attempt of the
\* same call: when the call is over, no sleep is the last event of its trace
\* or is followed by anything but a provider call.
C6_SleepsOnlyBetweenAttempts ==
    pc \in {"returned", "raised"} =>
        \A i \in DOMAIN trace :
            IsSleep(trace[i]) => (i < Len(trace) /\ IsCall(trace[i + 1]))

\* C7: with the preferred provider unavailable and the secondary constructed
\* the engine has the secondary as primary and no fallback; with both
\* available the preferred is primary and the secondary is fallback; after
\* construction the slots are never reassigned.
C7_Slots ==
    pc /= "new" =>
        /\ (~PreferredAvailable /\ SecondaryAvailable) =>
              /\ Constructed
              /\ primary_llm = ChatOpenAI
              /\ primary_provider = OpenAIModel
              /\ fallback_llm = None
              /\ fallback_provider = None
        /\ (PreferredAvailable /\ SecondaryAvailable) =>
              /\ Constructed
              /\ primary_llm = ChatGoogleGenerativeAI
              /\ primary_provider = GeminiModel
              /\ fallback_llm = ChatOpenAI
              /\ fallback_provider = OpenAIModel

C7_SlotsFrozen ==
    pc /= "new" =>
        UNCHANGED <<primary_llm, primary_provider, fallback_llm, fallback_provider>>

C7_PromotionOnceAtConstruction == []C7_Slots /\ [][C7_SlotsFrozen]_vars

C7_Witness ==
    /\ pc = "raised"
    /\ gemini_raised
    /\ SecondaryAvailable
    /\ primary_llm = ChatOpenAI
    /\ Len(trace) = 4

\* C8: construction fails with LLM_NOT_CONFIGURED exactly when neither
\* provider is usable, a failed provider construction alone is not fatal, and
\* a constructed engine has a primary that is not None and is not its fallback.
C8_ConstructionOutcome ==
    pc /= "new" =>
        /\ pc = "init_failed" <=> (~PreferredAvailable /\ ~SecondaryAvailable)
        /\ init_error = IF pc = "init_failed" THEN "LLM_NOT_CONFIGURED" ELSE None
        /\ ((gemini_raised \/ openai_raised)
               /\ (PreferredAvailable \/ SecondaryAvailable)) => Constructed
        /\ Constructed =>
              /\ primary_llm /= None
              /\ primary_provider /= None
              /\ primary_llm /= fallback_llm
              /\ primary_provider /= fallback_provider

C8_Witness ==
    /\ pc = "idle"
    /\ gemini_raised
    /\ SecondaryAvailable
    /\ primary_llm = ChatOpenAI
    /\ fallback_llm = None

\* C9: with the preferred credential absent and the secondary present, a
\* call on the constructed engine calls only the secondary provider, at most
\* max_retries times, never enters the fallback loop, and on success the
\* last-provider-used field names the secondary provider.
C9_SecondaryOnly ==
    (Constructed /\ ~Truthy(google_api_key) /\ Truthy(openai_api_key)) =>
        /\ \A j \in AllCalls : trace[j].llm = ChatOpenAI
        /\ Cardinality(AllCalls) <= max_retries
        /\ pc \notin {"fallback_loop", "fallback_except"}
        /\ pc = "returned" => provider = OpenAIModel

C9_Witness ==
    /\ ~Truthy(google_api_key)
    /\ Truthy(openai_api_key)
    /\ pc = "raised"
    /\ max_retries = 2
    /\ Cardinality(AllCalls) = 2

\* C10: the last-provider-used field changes on success only: during a call
\* and after a failed call it has the value it had when the call began, after
\* a successful call it is the name of the provider whose call returned the
\* text, and before any successful call it names the primary provider.
C10_ProviderMarkedOnSuccessOnly ==
    /\ pc \in {"primary_loop", "primary_except", "fallback_loop",
               "fallback_except", "raise", "raised"} => provider = provider_before
    /\ pc = "returned" => provider = ModelName(trace[Len(trace)].llm)
    /\ (Constructed /\ served = 0) => provider = primary_provider

C10_Witness ==
    /\ pc = "raised"
    /\ Len(trace) = 8
    /\ provider = fallback_provider
    /\ fallback_llm /= None

\* C11: after construction no call changes which provider is primary or
\* fallback: the four slot fields keep their values in every step (a call
\* served by the fallback does not promote it), and the first provider call
\* of every invocation goes to the chat model that was primary at
\* construction (self.llm).
C11_SlotsKept ==
    pc /= "new" =>
        /\ primary_llm' = primary_llm
        /\ primary_provider' = primary_provider
        /\ fallback_llm' = fallback_llm
        /\ fallback_provider' = fallback_provider
        /\ (trace = <<>> /\ trace' /= <<>>) =>
              (IsCall(trace'[1]) /\ trace'[1].llm = llm)

C11_ProviderSetImmutable == [][C11_SlotsKept]_vars

C11_Witness ==
    /\ calls = 2
    /\ served = 1
    /\ provider = fallback_provider
    /\ fallback_llm = ChatOpenAI
    /\ trace /= <<>>
    /\ trace[1].llm = ChatGoogleGenerativeAI

InCall == pc \in {"primary_loop", "primary_except", "fallback_loop",
                  "fallback_except", "raise"}
Sleeps == {j \in DOMAIN trace : IsSleep(trace[j])}
FailedCalls == {j \in AllCalls : ~trace[j].ok}

\* C18: every call ends, with a text or with a failure, after at most
\* max_retries provider calls without a fallback and 2 * max_retries with
\* one, and after at most one sleep per failed provider call.
C18_Budget ==
    /\ Cardinality(AllCalls) <=
          IF fallback_llm = None THEN max_retries ELSE 2 * max_retries
    /\ Cardinality(Sleeps) <= Cardinality(FailedCalls)

C18_Terminates ==
    /\ []C18_Budget
    /\ InCall ~> (pc \in {"returned", "raised"})

C18_Witness ==
    /\ pc = "raised"
    /\ fallback_llm /= None
    /\ max_retries = 2
    /\ Cardinality(AllCalls) = 4
    /\ Cardinality(Sleeps) = 4

\* C19: whenever a call fails, the error it raises is an error raised by one
\* of the provider calls of that same call, for every max_retries >= 0.
C19_RaisesAProviderError ==
    pc = "raised" =>
        /\ raised.type = "Exception"
        /\ \E j \in AllCalls : trace[j].err = raised

\* the array that the batch parser finds in a response is missing or is not
\* valid JSON
NotParsableArray(text) ==
    LET m == search_array(text) IN
        m = <<0, 0>> \/ ~json_loads(SubSeq(text, m[1], m[2])).ok
\* the flat object that the single parser finds is missing or is not valid JSON
NotParsableObject(text) ==
    LET m == search_flat_object(text) IN
        m = <<0, 0>> \/ ~json_loads(SubSeq(text, m[1], m[2])).ok
FirstObject(text) ==
    LET m == search_flat_object(text) IN json_loads(SubSeq(text, m[1], m[2])).v
FoundArray(text) ==
    LET m == search_array(text) IN json_loads(SubSeq(text, m[1], m[2])).v
HasKey(d, key) == \E i \in DOMAIN d.items : d.items[i].key = key
FixedFallback ==
    [folder_path |-> PyStr("Unclassified"), is_new_folder |-> PyBool(FALSE),
     confidence |-> PyFloat(0), reason |-> PyStr("parse failure")]
FixedFallbackFor(mail) ==
    [mail_id |-> mail.id, folder_path |-> PyStr("Unclassified"),
     is_new_folder |-> PyBool(FALSE), confidence |-> PyFloat(0),
     reason |-> PyStr("parse failure")]

\* C12: _parse_response is total: for every response it returns a result and
\* never raises, and for every response without a parsable flat object the
\* result is the fixed fallback.
C12_ParseSingleTotal ==
    cl_op = "parse_response" =>
        /\ cl_out.kind = "return"
        /\ NotParsableObject(cl_invoke.text) => cl_out.value = FixedFallback

\* C13: classify_mail and classify_mails_batch fail, with LLM_API_ERROR and
\* the original error, if and only if the invocation failed; when a provider
\* call returned a text they return a result whatever the text is.
C13_FailsIffInvocationFailed ==
    cl_op \in {"classify_mail", "classify_mails_batch"} =>
        /\ cl_out.kind = "raise" <=> ~cl_invoke.ok
        /\ cl_out.kind = "raise" =>
              /\ cl_out.code = "LLM_API_ERROR"
              /\ cl_out.cause = cl_invoke.err

\* C14: for every batch response that is not a parsable JSON array the batch
\* parser returns exactly one fallback entry per input mail, in input order,
\* each with that mail's id and the fixed fallback content.
C14_BatchFallbackPerMail ==
    (cl_op = "parse_batch_response" /\ NotParsableArray(cl_invoke.text)) =>
        /\ cl_out.kind = "return"
        /\ Len(cl_out.value) = Len(cl_mails)
        /\ \A i \in 1..Len(cl_mails) : cl_out.value[i] = FixedFallbackFor(cl_mails[i])

C14_Witness ==
    /\ cl_op = "parse_batch_response"
    /\ cl_invoke.text = BatchTrailing
    /\ Len(cl_mails) = 3
    /\ Len(cl_out.value) = 3

FirstTwentyIds == {cl_mails[j].id : j \in 1..BatchLimit}

\* C15 as stated: given more than 20 mails only the first 20 are rendered and
\* sent, the returned list has at most 20 entries, and every entry's mail_id
\* is the id of one of the first 20 input mails.
C15_ResultWithinFirstTwenty ==
    (cl_op = "classify_mails_batch" /\ Len(cl_mails) > 20) =>
        /\ cl_prompt = [i \in 1..20 |-> cl_mails[i].id]
        /\ cl_out.kind = "return" =>
              /\ Len(cl_out.value) <= 20
              /\ \A i \in 1..Len(cl_out.value) : cl_out.value[i].mail_id \in FirstTwentyIds

\* C15 amended: given more than 20 mails only the first 20 are rendered and
\* sent; a returned list is either one fallback entry for each of the first
\* 20 mails, in order (always so when the response is not a parsable JSON
\* array), or one entry per element of the array the model returned, with
\* that element's mail_id (None when absent).
C15_TruncatedBatch ==
    (cl_op = "classify_mails_batch" /\ Len(cl_mails) > 20) =>
        /\ cl_prompt = [i \in 1..20 |-> cl_mails[i].id]
        /\ cl_out.kind = "return" =>
              \/ /\ Len(cl_out.value) = 20
                 /\ \A i \in 1..20 : cl_out.value[i] = FixedFallbackFor(cl_mails[i])
              \/ /\ ~NotParsableArray(cl_invoke.text)
                 /\ LET items == FoundArray(cl_invoke.text).items IN
                       /\ Len(cl_out.value) = Len(items)
                       /\ \A i \in 1..Len(items) :
                             cl_out.value[i].mail_id = dict_get(items[i], "mail_id", PyNone)
        /\ (cl_invoke.ok /\ NotParsableArray(cl_invoke.text)) =>
              /\ cl_out.kind = "return"
              /\ Len(cl_out.value) = 20

C15_Witness ==
    /\ cl_op = "classify_mails_batch"
    /\ Len(cl_mails) = 21
    /\ cl_invoke.text = BatchUnknownId
    /\ cl_out.kind = "return"
    /\ Len(cl_out.value) = 1
    /\ cl_out.value[1].mail_id = PyInt(99)

\* C17: for every response whose first flat object parses, the single parser
\* returns that object's fields: folder_path or 'Unclassified' when absent,
\* is_new_folder or False when absent, the float value of confidence or 0.5
\* when absent, reason or '' when absent; a present confidence that cannot
\* be coerced to a float gives the fixed fallback result.
C17_ParseSingleFields ==
    (cl_op = "parse_response" /\ ~NotParsableObject(cl_invoke.text)) =>
        LET d == FirstObject(cl_invoke.text)
            coerced == py_float(dict_get(d, "confidence", PyNone))
        IN  IF HasKey(d, "confidence") /\ ~coerced.ok
            THEN cl_out = Return(FixedFallback)
            ELSE cl_out = Return(
                    [folder_path |-> IF HasKey(d, "folder_path")
                                     THEN dict_get(d, "folder_path", PyNone)
                                     ELSE PyStr("Unclassified"),
                     is_new_folder |-> IF HasKey(d, "is_new_folder")
                                       THEN dict_get(d, "is_new_folder", PyNone)
                                       ELSE PyBool(FALSE),
                     confidence |-> IF HasKey(d, "confidence")
                                    THEN coerced.v ELSE PyFloat(50),
                     reason |-> IF HasKey(d, "reason")
                                THEN dict_get(d, "reason", PyNone)
                                ELSE PyStr("")])

\* what a call that runs alone does with the outcomes outs of its provider
\* calls: n attempts on the primary, then n on the fallback when there is
\* one, a sleep after every failure, the first text returned, else the last
\* error raised
RECURSIVE SoloRun(_, _, _, _, _)
SoloRun(outs, n, slot, k, acc) ==
    LET target == IF slot = "primary" THEN primary_llm ELSE fallback_llm IN
    IF k >= n
    THEN IF slot = "primary" /\ fallback_llm /= None
         THEN SoloRun(outs, n, "fallback", 0, acc)
         ELSE [state |-> "raised", trace |-> acc, text |-> None,
               err |-> IF acc = <<>> THEN TypeError ELSE acc[Len(acc) - 1].err]
    ELSE IF outs = <<>>
    THEN [state |-> "running", trace |-> acc, text |-> None, err |-> NoError]
    ELSE LET o == Head(outs) IN
        IF o.ok
        THEN [state |-> "returned",
              trace |-> Append(acc, CallEvent(target, TRUE, o.text, NoError)),
              text |-> o.text, err |-> NoError]
        ELSE LET e == ProviderError(o.err.msg, target, Len(acc) + 1)
                 secs == IF slot = "primary"
                         THEN (IF is_retriable(o.err.msg) THEN 2 * Doubled(k) ELSE 1)
                         ELSE Doubled(k)
             IN  SoloRun(Tail(outs), n, slot, k + 1,
                         acc \o <<CallEvent(target, FALSE, None, e), SleepEvent(secs)>>)

IsPrefix(a, b) == Len(a) <= Len(b) /\ SubSeq(b, 1, Len(a)) = a

\* C16: under every interleaving of concurrent callers, what each call
\* returns or raises, its provider calls and its sleeps are those of a call
\* that runs alone on the same provider outcomes, and the last-provider-used
\* field holds the name of a configured provider: the initial primary name
\* or the name of the provider that served some successful call.
C16_ConcurrentCallsIndependent ==
    /\ \A t \in Threads :
          LET tr == t_trace[t]
              ref == SoloRun(SelectSeq(tr, IsCall), t_max_retries[t], "primary", 0, <<>>)
          IN  /\ t_pc[t] \notin {"off", "idle"} => IsPrefix(tr, ref.trace)
              /\ t_pc[t] = "returned" =>
                    /\ ref.state = "returned"
                    /\ tr = ref.trace
                    /\ t_result[t] = ref.text
              /\ t_pc[t] = "raised" =>
                    /\ ref.state = "raised"
                    /\ tr = ref.trace
                    /\ t_raised[t] = ref.err
    /\ (\E t \in Threads : t_pc[t] /= "off") =>
          /\ provider /= None
          /\ provider \in {primary_provider, fallback_provider}
          /\ \/ provider = ModelName(llm)
             \/ \E u \in Threads : \E j \in DOMAIN t_trace[u] :
                   /\ IsCall(t_trace[u][j])
                   /\ t_trace[u][j].ok
                   /\ ModelName(t_trace[u][j].llm) = provider

C16_Witness ==
    /\ t_pc["t1"] = "raised"
    /\ t_pc["t2"] = "fallback_mark"
    /\ Len(t_trace["t1"]) = 8
    /\ Len(t_trace["t2"]) = 3
    /\ provider = primary_provider
    /\ t_raised["t1"].msg /= t_last_error["t2"].msg

AllMailsReset ==
    \A i \in DOMAIN db_mails : db_mails[i] = [is_classified |-> FALSE, folder |-> NullFolder]

\* C20: for every combination of the two flags: with --folders-only all
\* folders are deleted and the classification state of the mails is as
\* before; with --mails-only every mail is unclassified without folder and
\* no folder is deleted; with neither flag both resets happen; no mail row is
\* ever deleted.
C20_FlagsHonoured ==
    sr_pc = "done" =>
        /\ sr_options.folders_only =>
              /\ db_folders = {}
              /\ db_mails = db_before.mails
        /\ sr_options.mails_only =>
              /\ AllMailsReset
              /\ db_folders = db_before.folders
        /\ (~sr_options.folders_only /\ ~sr_options.mails_only) =>
              /\ AllMailsReset
              /\ db_folders = {}
        /\ DOMAIN db_mails = DOMAIN db_before.mails
====
